---- MODULE Spec2Model ----
(***************************************************************************)
(* Console games of the repository: the two hangman variants               *)
(* (src/hangman_game.py, src/Hangman_game/hangman_game.py) and the trivia  *)
(* game (src/trivia_game/main.py).  One run executes one program; a step   *)
(* of the model is everything the program does from one console input to   *)
(* the next.                                                               *)
(*                                                                         *)
(* Strings are sequences of one-character strings, so that lower(),        *)
(* strip(), replace(" ", ""), join and "_ " * n are computed as Python     *)
(* computes them.  Python lists are sequences; Python index i is index     *)
(* i + 1 here for the word pool, while player indices keep Python's        *)
(* 0-based values.                                                         *)
(***************************************************************************)
EXTENDS Integers, Sequences, FiniteSets, TLC

\* Bounds of the model (not program constants).
MaxPlayers == 2
MaxWords == 2
MaxScore == 3
MaxQuestions == 2
MaxFinalPlayers == 4
MaxFinalScore == 5
MaxTurnPlayers == 6

VARIABLES
    prog,            \* which program runs: "hangman1", "hangman2", "trivia"
    source,          \* what the data source is like: "ok", "missing", ...
    pc,              \* control position of the program
    exit_code,       \* -1 while running, else the process exit code
    reported,        \* an error message (or traceback) was printed
    prompted,        \* a player name, guess or answer has been prompted
    event,           \* which branch the last step took
    num_players,
    player_names,
    scores,
    words,           \* hangman: the working pool
    word_index,      \* hangman: index of the word in play (1-based)
    word,            \* hangman: the word in play
    covered_word,    \* hangman: the masked buffer, spaces included
    tried_letters,   \* hangman: letters tried for the word in play
    turn_of_players, \* hangman 1: 1-based number of the last prompted player
    player,          \* hangman 2: 0-based position of the for loop over players
    game_running,
    user_input,      \* hangman: the last validated input
    questions,       \* trivia: the working pool
    current_question,
    current_player,
    category,        \* trivia: the last filter passed to select_question
    difficulty,
    answer,          \* trivia: the last accepted answer
    announce,        \* trivia: what print_final_scores announced
    start_player,    \* history: current_player before the first next_turn call
    calls,           \* history: number of next_turn calls so far
    visited          \* history: current_player after each next_turn call

vars ==
    <<prog, source, pc, exit_code, reported, prompted, event, num_players,
      player_names, scores, words, word_index, word, covered_word,
      tried_letters, turn_of_players, player, game_running, user_input,
      questions, current_question, current_player, category, difficulty,
      answer, announce, start_player, calls, visited>>

hangVars ==
    <<words, word_index, word, covered_word, tried_letters, turn_of_players,
      player, game_running, user_input>>

trivVars ==
    <<questions, current_question, current_player, category, difficulty,
      answer, announce, player_names>>

histVars ==
    <<start_player, calls, visited>>

----------------------------------------------------------------------------
\* Python built-ins on strings and lists.

Range(s) ==
    {s[i] : i \in DOMAIN s}

\* str.isalpha() of a one-character string.
isalpha(ch) ==
    ch \in {"a", "b", "c", "e", "h", "m", "r", "z", "A", "B", "E", "H", "M", "R"}

LowerChar(ch) ==
    CASE ch = "A" -> "a"
      [] ch = "B" -> "b"
      [] ch = "E" -> "e"
      [] ch = "H" -> "h"
      [] ch = "M" -> "m"
      [] ch = "R" -> "r"
      [] ch = "S" -> "s"
      [] ch = "Y" -> "y"
      [] OTHER -> ch

\* str.lower()
str_lower(s) ==
    IF s = <<>> THEN <<>> ELSE [i \in 1..Len(s) |-> LowerChar(s[i])]

RECURSIVE str_lstrip(_)
str_lstrip(s) ==
    IF s # <<>> /\ Head(s) = " " THEN str_lstrip(Tail(s)) ELSE s

RECURSIVE str_rstrip(_)
str_rstrip(s) ==
    IF s # <<>> /\ s[Len(s)] = " " THEN str_rstrip(SubSeq(s, 1, Len(s) - 1)) ELSE s

\* str.strip()
str_strip(s) ==
    str_rstrip(str_lstrip(s))

\* s * n
RECURSIVE str_times(_, _)
str_times(s, n) ==
    IF n <= 0 THEN <<>> ELSE s \o str_times(s, n - 1)

\* s.replace(" ", "")
remove_spaces(s) ==
    SelectSeq(s, LAMBDA ch : ch # " ")

\* " ".join(list) for a list of one-character strings
RECURSIVE join_spaces(_)
join_spaces(list) ==
    IF list = <<>> THEN <<>>
    ELSE IF Len(list) = 1 THEN <<list[1]>>
    ELSE <<list[1], " ">> \o join_spaces(Tail(list))

\* sub in s, for strings
str_contains(s, sub) ==
    \E i \in 1..(Len(s) - Len(sub) + 1) : SubSeq(s, i, i + Len(sub) - 1) = sub

\* list.pop(i), the list that is left (i is 1-based here)
list_pop(list, i) ==
    SubSeq(list, 1, i - 1) \o SubSeq(list, i + 1, Len(list))

RECURSIVE list_remove(_, _)
\* list.remove(x): the list without its first element equal to x
list_remove(list, x) ==
    IF list = <<>> THEN <<>>
    ELSE IF Head(list) = x THEN Tail(list)
    ELSE <<Head(list)>> \o list_remove(Tail(list), x)

\* max(list) of a non-empty list of integers
list_max(list) ==
    CHOOSE m \in Range(list) : \A x \in Range(list) : x <= m

\* The absent value None, distinct from every string of one-character strings.
None ==
    <<"None">>

----------------------------------------------------------------------------
\* Console input and data files the runs draw from.

\* Lines typed at "What letter do you think it is? ".
RawInputs ==
    {<<"a">>, <<"b">>, <<"c">>, <<"A">>, <<".">>, <<"1">>, <<>>, <<"a", "b">>}

\* Entries of a word file; the last one lacks the 'word' key.
WordBank ==
    {[word |-> <<"a", "b">>, hint |-> "h1"],
     [word |-> <<"a", "a">>, hint |-> "h2"],
     [word |-> <<"b", "a", "b">>, hint |-> "h3"]}

BadEntry ==
    [hint |-> "h4"]

Lists(S, n) ==
    UNION {[1..k -> S] : k \in 0..n}

\* hangman 1 reads two parallel lists of strings; hangman 2 a list of dicts.
WordFiles(p) ==
    IF p = "hangman1" THEN Lists(WordBank, MaxWords)
    ELSE Lists(WordBank \cup {BadEntry}, MaxWords)

Names ==
    <<"A", "B", "C", "D", "E", "F">>

\* Names typed by n players: all different, or all the same.
NameLists(n) ==
    {[i \in 1..n |-> Names[i]], [i \in 1..n |-> Names[1]]}

Programs ==
    {"hangman1", "hangman2", "trivia"}

Sources(p) ==
    IF p = "trivia" THEN {"ok", "missing", "malformed"}
    ELSE {"ok", "missing", "malformed", "nokey"}

----------------------------------------------------------------------------
\* hangman 2: src/Hangman_game/hangman_game.py

\* get_valid_input: the loop ends on the first line of length 1 that is a
\* letter or "."; the value returned is that line in lower case.
valid_input(ui) ==
    Len(ui) = 1 /\ (isalpha(ui[1]) \/ ui = <<".">>)

display_covered_word(w) ==
    str_times(<<"_", " ">>, Len(w))

update_covered_word_negative(guessed_letter, random_word, covered_word_) ==
    LET old == remove_spaces(covered_word_)
        hits == {i \in 1..Len(random_word) : <<random_word[i]>> = guessed_letter}
        new == [i \in 1..Len(old) |-> IF i \in hits THEN guessed_letter[1] ELSE old[i]]
    IN  [covered |-> join_spaces(new), score |-> 0 - Cardinality(hits)]

update_covered_word_everywhere(guessed_letter, random_word, covered_word_) ==
    LET old == remove_spaces(covered_word_)
        hits == {i \in 1..Len(random_word) : <<random_word[i]>> = guessed_letter}
        new == [i \in 1..Len(old) |-> guessed_letter[1]]
    IN  [covered |-> join_spaces(new), score |-> Cardinality(hits)]

update_covered_word(guessed_letter, random_word, covered_word_) ==
    LET old == remove_spaces(covered_word_)
        hits == {i \in 1..Len(random_word) : <<random_word[i]>> = guessed_letter}
        new == [i \in 1..Len(old) |-> IF i \in hits THEN guessed_letter[1] ELSE old[i]]
    IN  [covered |-> join_spaces(new), score |-> Cardinality(hits)]

play_turn(ui, random_word, covered_word_, tried) ==
    IF ui = <<".">> THEN
        [running |-> FALSE, covered |-> covered_word_, score |-> 0,
         tried |-> tried, event |-> "quit"]
    ELSE IF ui \in tried THEN
        [running |-> TRUE, covered |-> covered_word_, score |-> 0,
         tried |-> tried, event |-> "repeat"]
    ELSE IF str_contains(random_word, ui) THEN
        LET u == update_covered_word(ui, random_word, covered_word_)
        IN  [running |-> TRUE, covered |-> u.covered, score |-> u.score,
             tried |-> tried \cup {ui}, event |-> "hit"]
    ELSE
        [running |-> TRUE, covered |-> covered_word_, score |-> 0,
         tried |-> tried \cup {ui}, event |-> "miss"]

\* load_word_list fails: message, exit(1).
LoadFail2 ==
    /\ prog = "hangman2" /\ pc = "load" /\ source # "ok"
    /\ reported' = TRUE
    /\ exit_code' = 1
    /\ pc' = "done"
    /\ event' = "load_failed"
    /\ UNCHANGED <<prog, source, prompted, num_players, scores>>
    /\ UNCHANGED <<hangVars, trivVars, histVars>>

\* load_word_list succeeds, then initialize_players prompts the names.
LoadWords2 ==
    /\ prog = "hangman2" /\ pc = "load" /\ source = "ok"
    /\ \E file \in WordFiles(prog), n \in 1..MaxPlayers :
        /\ words' = file
        /\ num_players' = n
        /\ scores' = [i \in 1..n |-> 0]
    /\ prompted' = TRUE
    /\ game_running' = TRUE
    /\ pc' = "pick"
    /\ event' = "loaded"
    /\ UNCHANGED <<prog, source, exit_code, reported>>
    /\ UNCHANGED <<word_index, word, covered_word, tried_letters,
                   turn_of_players, player, user_input>>
    /\ UNCHANGED <<trivVars, histVars>>

\* Top of the outer loop: get_random_word, display_covered_word.
PickWord2 ==
    /\ prog = "hangman2" /\ pc = "pick"
    /\ words # <<>> /\ game_running
    /\ \E i \in 1..Len(words) :
        /\ "word" \in DOMAIN words[i]
        /\ word_index' = i
        /\ word' = words[i].word
        /\ covered_word' = display_covered_word(words[i].word)
    /\ tried_letters' = {}
    /\ player' = 0
    /\ pc' = "turn"
    /\ event' = "picked"
    /\ UNCHANGED <<prog, source, exit_code, reported, prompted, num_players, scores>>
    /\ UNCHANGED <<words, turn_of_players, game_running, user_input>>
    /\ UNCHANGED <<trivVars, histVars>>

\* get_random_word on an entry without 'word': KeyError, uncaught.
PickWordKeyError2 ==
    /\ prog = "hangman2" /\ pc = "pick"
    /\ words # <<>> /\ game_running
    /\ \E i \in 1..Len(words) : "word" \notin DOMAIN words[i]
    /\ reported' = TRUE
    /\ exit_code' = 1
    /\ pc' = "crashed"
    /\ event' = "KeyError"
    /\ UNCHANGED <<prog, source, prompted, num_players, scores>>
    /\ UNCHANGED <<hangVars, trivVars, histVars>>

\* One pass of the for loop body: play_turn for `player`, the score update,
\* the two loop tests, and words.pop(word_index) when the inner loop ends.
Turn2(ui) ==
    /\ prog = "hangman2" /\ pc = "turn"
    /\ valid_input(ui)
    /\ LET r == play_turn(str_lower(ui), word, covered_word, tried_letters)
           over == ~r.running \/ "_" \notin Range(remove_spaces(r.covered))
       IN  /\ user_input' = str_lower(ui)
           /\ game_running' = r.running
           /\ covered_word' = r.covered
           /\ tried_letters' = r.tried
           /\ scores' = [scores EXCEPT ![player + 1] = @ + r.score]
           /\ event' = r.event
           /\ IF over
              THEN /\ words' = list_pop(words, word_index)
                   /\ pc' = "pick"
                   /\ player' = player
              ELSE /\ words' = words
                   /\ pc' = "turn"
                   /\ player' = IF player + 1 < num_players THEN player + 1 ELSE 0
    /\ UNCHANGED <<prog, source, exit_code, reported, prompted, num_players>>
    /\ UNCHANGED <<word_index, word, turn_of_players>>
    /\ UNCHANGED <<trivVars, histVars>>

\* The outer loop ends: final scores are printed, main returns.
Report2 ==
    /\ prog = "hangman2" /\ pc = "pick"
    /\ words = <<>> \/ ~game_running
    /\ exit_code' = 0
    /\ pc' = "done"
    /\ event' = "report"
    /\ UNCHANGED <<prog, source, reported, prompted, num_players, scores>>
    /\ UNCHANGED <<hangVars, trivVars, histVars>>

----------------------------------------------------------------------------
\* hangman 1: src/hangman_game.py

cowerdWord(random_word) ==
    str_times(<<"_", " ">>, Len(random_word))

if_letter_in_word(guessed_letter, random_word, cowerd_word) ==
    LET old == remove_spaces(cowerd_word)
        new == [i \in 1..Len(old) |->
                   IF i <= Len(random_word) /\ <<random_word[i]>> = guessed_letter
                   THEN guessed_letter[1] ELSE old[i]]
    IN  join_spaces(new)

\* load_word_list raises (no file, bad JSON, KeyError): traceback, exit 1.
LoadFail1 ==
    /\ prog = "hangman1" /\ pc = "load" /\ source # "ok"
    /\ reported' = TRUE
    /\ exit_code' = 1
    /\ pc' = "crashed"
    /\ event' = "load_failed"
    /\ UNCHANGED <<prog, source, prompted, num_players, scores>>
    /\ UNCHANGED <<hangVars, trivVars, histVars>>

LoadWords1 ==
    /\ prog = "hangman1" /\ pc = "load" /\ source = "ok"
    /\ \E file \in WordFiles(prog), n \in 1..MaxPlayers :
        /\ words' = file
        /\ num_players' = n
        /\ scores' = [i \in 1..n |-> 0]
    /\ prompted' = TRUE
    /\ turn_of_players' = 0
    /\ game_running' = TRUE
    /\ pc' = "pick"
    /\ event' = "loaded"
    /\ UNCHANGED <<prog, source, exit_code, reported>>
    /\ UNCHANGED <<word_index, word, covered_word, tried_letters, player, user_input>>
    /\ UNCHANGED <<trivVars, histVars>>

\* Top of the outer loop: randomNum, randomWord, hint, cowerdWord.
PickWord1 ==
    /\ prog = "hangman1" /\ pc = "pick"
    /\ words # <<>> /\ game_running
    /\ \E i \in 1..Len(words) :
        /\ word_index' = i
        /\ word' = words[i].word
        /\ covered_word' = cowerdWord(words[i].word)
    /\ tried_letters' = {}
    /\ pc' = "turn"
    /\ event' = "picked"
    /\ UNCHANGED <<prog, source, exit_code, reported, prompted, num_players, scores>>
    /\ UNCHANGED <<words, turn_of_players, player, game_running, user_input>>
    /\ UNCHANGED <<trivVars, histVars>>

\* One pass of the inner loop, and the pop that follows its end.  The
\* program keeps no set of tried letters; tried_letters is kept here as a
\* history of the letters entered for the word in play.
Turn1(ui) ==
    /\ prog = "hangman1" /\ pc = "turn"
    /\ valid_input(ui)
    /\ LET u == str_lower(ui)
           t == (turn_of_players % num_players) + 1
           quit == u = <<".">>
           hit == ~quit /\ u[1] \in Range(word)
           cw == IF hit THEN if_letter_in_word(u, word, covered_word) ELSE covered_word
           over == quit \/ "_" \notin Range(cw)
       IN  /\ hit => scores[t] < MaxScore
           /\ turn_of_players' = t
           /\ user_input' = u
           /\ game_running' = ~quit
           /\ covered_word' = cw
           /\ scores' = IF hit THEN [scores EXCEPT ![t] = @ + 1] ELSE scores
           /\ tried_letters' = IF quit THEN tried_letters ELSE tried_letters \cup {u}
           /\ event' = IF quit THEN "quit"
                       ELSE IF u \in tried_letters THEN "repeat"
                       ELSE IF hit THEN "hit" ELSE "miss"
           /\ words' = IF over /\ ~quit THEN list_pop(words, word_index) ELSE words
           /\ pc' = IF over THEN "pick" ELSE "turn"
    /\ UNCHANGED <<prog, source, exit_code, reported, prompted, num_players>>
    /\ UNCHANGED <<word_index, word, player>>
    /\ UNCHANGED <<trivVars, histVars>>

Report1 ==
    /\ prog = "hangman1" /\ pc = "pick"
    /\ words = <<>> \/ ~game_running
    /\ exit_code' = 0
    /\ pc' = "done"
    /\ event' = "report"
    /\ UNCHANGED <<prog, source, reported, prompted, num_players, scores>>
    /\ UNCHANGED <<hangVars, trivVars, histVars>>

----------------------------------------------------------------------------
\* trivia: src/trivia_game/main.py

\* Records of a question file.  Q3 and Q4 pass validation (correct_answer is
\* an int) with a correct_answer that is no index of an option the prompt
\* accepts; Q5 lacks a required field.
Q1 ==
    [question |-> "q1", options |-> <<"x", "y">>, correct_answer |-> 0,
     category |-> <<"M", "a">>, difficulty |-> <<"e">>]

Q2 ==
    [question |-> "q2", options |-> <<"x", "y">>, correct_answer |-> 1,
     category |-> <<"m", "a">>, difficulty |-> <<"H">>]

Q3 ==
    [question |-> "q3", options |-> <<"x", "y">>, correct_answer |-> 2,
     category |-> <<"A", "r">>, difficulty |-> <<"e">>]

Q4 ==
    [question |-> "q4", options |-> <<"x", "y">>, correct_answer |-> -1,
     category |-> <<"A", "r">>, difficulty |-> <<"h">>]

Q5 ==
    [question |-> "q5", options |-> <<"x", "y">>,
     category |-> <<"m", "a">>, difficulty |-> <<"e">>]

QuestionBank ==
    {Q1, Q2, Q3, Q4, Q5}

\* Files are arrays of different records (two equal records of a file are
\* two objects in the program, which list.remove tells apart).
QuestionFiles ==
    {f \in Lists(QuestionBank, MaxQuestions) :
        \A i, j \in DOMAIN f : i # j => f[i] # f[j]}

\* Lines typed at the category and the difficulty prompt.
CategoryInputs ==
    {<<>>, <<"m", "a">>, <<"M", "A", " ">>, <<"a", "r">>, <<"z">>}

DifficultyInputs ==
    {<<>>, <<"E">>, <<"h">>}

\* Numbers typed at "Your answer (1-4): ".
AnswerInputs ==
    0..4

\* Lines typed at "Do you want to start the game? (yes/no): ".
StartInputs ==
    {<<"y", "e", "s">>, <<"Y", "E", "S", " ">>, <<"n", "o">>, <<>>}

\* No current question yet (Python's None).
NoQuestion ==
    [none |-> TRUE]

\* QuestionModel(**q): every field is required.
RequiredFields ==
    {"question", "options", "correct_answer", "category", "difficulty"}

parse_questions(data) ==
    SelectSeq(data, LAMBDA q : RequiredFields \subseteq DOMAIN q)

\* Question.is_correct
is_correct(q, a) ==
    q.correct_answer = a

\* x or None
or_none(x) ==
    IF x = <<>> THEN None ELSE x

available_questions_exact(qs, cat, diff) ==
    SelectSeq(qs, LAMBDA q :
        /\ cat = None \/ q.category = cat
        /\ diff = None \/ q.difficulty = diff)

\* The list comprehension of select_question.
available_questions(qs, cat, diff) ==
    SelectSeq(qs, LAMBDA q :
        /\ cat = None \/ str_lower(q.category) = str_lower(cat)
        /\ diff = None \/ str_lower(q.difficulty) = str_lower(diff))

next_turn_no_wrap(cp, n) ==
    IF cp + 1 < n THEN cp + 1 ELSE cp

\* TriviaGame.next_turn: the new current_player.
next_turn(cp, n) ==
    (cp + 1) % n

print_final_scores_first(names, sc) ==
    LET max_score == sc[1]
        idx == SelectSeq([i \in 1..Len(sc) |-> i], LAMBDA i : sc[i] = max_score)
        winners == [k \in 1..Len(idx) |-> names[idx[k]]]
    IN  IF Len(winners) = 1
        THEN [kind |-> "wins", names |-> <<winners[1]>>]
        ELSE [kind |-> "tie", names |-> winners]

\* TriviaGame.print_final_scores: the announcement.
print_final_scores(names, sc) ==
    LET max_score == list_max(sc)
        idx == SelectSeq([i \in 1..Len(sc) |-> i], LAMBDA i : sc[i] = max_score)
        winners == [k \in 1..Len(idx) |-> names[idx[k]]]
    IN  IF Len(winners) = 1
        THEN [kind |-> "wins", names |-> <<winners[1]>>]
        ELSE [kind |-> "tie", names |-> winners]

\* list[i] raises IndexError
index_error(list, i) ==
    ~(0 - Len(list) <= i /\ i < Len(list))

\* main --file: load_questions catches the error, prints it and returns [];
\* main prints "No questions loaded. Exiting." and returns.
LoadQuestionsFail ==
    /\ prog = "trivia" /\ pc = "load" /\ source # "ok"
    /\ reported' = TRUE
    /\ exit_code' = 0
    /\ pc' = "done"
    /\ event' = "load_failed"
    /\ UNCHANGED <<prog, source, prompted, num_players, scores>>
    /\ UNCHANGED <<hangVars, trivVars, histVars>>

\* The file parses, and no record of it passes validation.
LoadQuestionsEmpty ==
    /\ prog = "trivia" /\ pc = "load" /\ source = "ok"
    /\ \E data \in QuestionFiles : parse_questions(data) = <<>>
    /\ reported' = TRUE
    /\ exit_code' = 0
    /\ pc' = "done"
    /\ event' = "load_empty"
    /\ UNCHANGED <<prog, source, prompted, num_players, scores>>
    /\ UNCHANGED <<hangVars, trivVars, histVars>>

LoadQuestions ==
    /\ prog = "trivia" /\ pc = "load" /\ source = "ok"
    /\ \E data \in QuestionFiles :
        /\ parse_questions(data) # <<>>
        /\ questions' = parse_questions(data)
    /\ pc' = "confirm"
    /\ event' = "loaded"
    /\ UNCHANGED <<prog, source, exit_code, reported, prompted, num_players, scores>>
    /\ UNCHANGED <<current_question, current_player, category, difficulty,
                   answer, announce, player_names>>
    /\ UNCHANGED <<hangVars, histVars>>

\* "yes": the number of players is asked until it is > 0, then
\* TriviaGame.__init__ and get_player_names.
StartGame(line) ==
    /\ prog = "trivia" /\ pc = "confirm"
    /\ str_strip(str_lower(line)) = <<"y", "e", "s">>
    /\ \E n \in 1..MaxPlayers :
        /\ num_players' = n
        /\ scores' = [i \in 1..n |-> 0]
        /\ player_names' \in NameLists(n)
    /\ current_question' = NoQuestion
    /\ current_player' = 0
    /\ prompted' = TRUE
    /\ pc' = "play"
    /\ event' = "started"
    /\ UNCHANGED <<prog, source, exit_code, reported>>
    /\ UNCHANGED <<questions, category, difficulty, answer, announce>>
    /\ UNCHANGED <<hangVars, histVars>>

CancelGame(line) ==
    /\ prog = "trivia" /\ pc = "confirm"
    /\ str_strip(str_lower(line)) # <<"y", "e", "s">>
    /\ exit_code' = 0
    /\ pc' = "done"
    /\ event' = "cancelled"
    /\ UNCHANGED <<prog, source, reported, prompted, num_players, scores>>
    /\ UNCHANGED <<hangVars, trivVars, histVars>>

\* play, from the category prompt to select_question's return; on True
\* ask_question follows and the answer is awaited.
SelectStep(cat_in, diff_in) ==
    /\ prog = "trivia" /\ pc = "play"
    /\ questions # <<>>
    /\ LET cat == or_none(str_strip(cat_in))
           diff == or_none(str_strip(diff_in))
           avail == available_questions(questions, cat, diff)
       IN  /\ category' = cat
           /\ difficulty' = diff
           /\ IF avail = <<>>
              THEN /\ current_question' = current_question
                   /\ pc' = "play"
                   /\ event' = "nomatch"
              ELSE /\ current_question' \in Range(avail)
                   /\ pc' = "answer"
                   /\ event' = "selected"
    /\ UNCHANGED <<prog, source, exit_code, reported, prompted, num_players, scores>>
    /\ UNCHANGED <<questions, current_player, answer, announce, player_names>>
    /\ UNCHANGED <<hangVars, histVars>>

\* get_answer accepts raw - 1 when it is an index of an option; then
\* check_answer, questions.remove on a correct answer, next_turn.
AnswerStep(raw) ==
    /\ prog = "trivia" /\ pc = "answer"
    /\ LET a == raw - 1
           q == current_question
           cp == current_player
       IN  /\ 0 <= a /\ a < Len(q.options)
           /\ is_correct(q, a) \/ ~index_error(q.options, q.correct_answer)
           /\ answer' = a
           /\ IF is_correct(q, a)
              THEN /\ scores' = [scores EXCEPT ![cp + 1] = @ + 1]
                   /\ questions' = list_remove(questions, q)
                   /\ event' = "correct"
              ELSE /\ scores' = scores
                   /\ questions' = questions
                   /\ event' = "wrong"
           /\ current_player' = next_turn(cp, num_players)
    /\ pc' = "play"
    /\ UNCHANGED <<prog, source, exit_code, reported, prompted, num_players>>
    /\ UNCHANGED <<current_question, category, difficulty, announce, player_names>>
    /\ UNCHANGED <<hangVars, histVars>>

\* check_answer on a wrong answer reads options[correct_answer]: IndexError.
AnswerIndexError(raw) ==
    /\ prog = "trivia" /\ pc = "answer"
    /\ LET a == raw - 1
           q == current_question
       IN  /\ 0 <= a /\ a < Len(q.options)
           /\ ~is_correct(q, a)
           /\ index_error(q.options, q.correct_answer)
           /\ answer' = a
    /\ reported' = TRUE
    /\ exit_code' = 1
    /\ pc' = "crashed"
    /\ event' = "IndexError"
    /\ UNCHANGED <<prog, source, prompted, num_players, scores>>
    /\ UNCHANGED <<questions, current_question, current_player, category,
                   difficulty, announce, player_names>>
    /\ UNCHANGED <<hangVars, histVars>>

\* The while loop of play ends: print_final_scores, main returns.
FinalScores ==
    /\ prog = "trivia" /\ pc = "play"
    /\ questions = <<>>
    /\ announce' = print_final_scores(player_names, scores)
    /\ exit_code' = 0
    /\ pc' = "done"
    /\ event' = "final"
    /\ UNCHANGED <<prog, source, reported, prompted, num_players, scores>>
    /\ UNCHANGED <<questions, current_question, current_player, category,
                   difficulty, answer, player_names>>
    /\ UNCHANGED <<hangVars, histVars>>

\* One call of TriviaGame.next_turn on a game object.
NextTurnCall ==
    /\ prog = "trivia" /\ pc = "play"
    /\ calls < num_players
    /\ current_player' = next_turn(current_player, num_players)
    /\ calls' = calls + 1
    /\ visited' = Append(visited, current_player')
    /\ UNCHANGED <<prog, source, pc, exit_code, reported, prompted, event,
                   num_players, scores, start_player>>
    /\ UNCHANGED <<questions, current_question, category, difficulty, answer,
                   announce, player_names>>
    /\ UNCHANGED hangVars

----------------------------------------------------------------------------

Init ==
    /\ prog \in Programs
    /\ source \in Sources(prog)
    /\ pc = "load"
    /\ exit_code = -1
    /\ reported = FALSE
    /\ prompted = FALSE
    /\ event = "none"
    /\ num_players = 0
    /\ player_names = <<>>
    /\ scores = <<>>
    /\ words = <<>>
    /\ word_index = 0
    /\ word = <<>>
    /\ covered_word = <<>>
    /\ tried_letters = {}
    /\ turn_of_players = 0
    /\ player = 0
    /\ game_running = TRUE
    /\ user_input = <<>>
    /\ questions = <<>>
    /\ current_question = NoQuestion
    /\ current_player = 0
    /\ category = None
    /\ difficulty = None
    /\ answer = -1
    /\ announce = [kind |-> "none", names |-> <<>>]
    /\ start_player = 0
    /\ calls = 0
    /\ visited = <<>>

Next ==
    \/ LoadFail1
    \/ LoadWords1
    \/ PickWord1
    \/ \E ui \in RawInputs : Turn1(ui)
    \/ Report1
    \/ LoadFail2
    \/ LoadWords2
    \/ PickWord2
    \/ PickWordKeyError2
    \/ \E ui \in RawInputs : Turn2(ui)
    \/ Report2
    \/ LoadQuestionsFail
    \/ LoadQuestionsEmpty
    \/ LoadQuestions
    \/ \E line \in StartInputs : StartGame(line)
    \/ \E line \in StartInputs : CancelGame(line)
    \/ \E c \in CategoryInputs, d \in DifficultyInputs : SelectStep(c, d)
    \/ \E raw \in AnswerInputs : AnswerStep(raw)
    \/ \E raw \in AnswerInputs : AnswerIndexError(raw)
    \/ FinalScores

Spec ==
    Init /\ [][Next]_vars

\* The players keep choosing filters that match a question of the pool, keep
\* trying the options of the question asked, and the program runs on.
SelectMatching ==
    \E c \in CategoryInputs, d \in DifficultyInputs :
        SelectStep(c, d) /\ pc' = "answer"

AnswerCorrectly ==
    \E raw \in AnswerInputs : AnswerStep(raw) /\ event' = "correct"

FairSpec ==
    /\ Spec
    /\ WF_vars(SelectMatching)
    /\ SF_vars(AnswerCorrectly)
    /\ WF_vars(FinalScores)

\* A finished trivia game with any final scores: the pool is empty and at
\* least one answer was correct.
InitFinal ==
    /\ prog = "trivia"
    /\ source = "ok"
    /\ pc = "play"
    /\ exit_code = -1
    /\ reported = FALSE
    /\ prompted = TRUE
    /\ event = "correct"
    /\ num_players \in 1..MaxFinalPlayers
    /\ player_names \in NameLists(num_players)
    /\ scores \in [1..num_players -> 0..MaxFinalScore]
    /\ \E i \in 1..num_players : scores[i] > 0
    /\ words = <<>>
    /\ word_index = 0
    /\ word = <<>>
    /\ covered_word = <<>>
    /\ tried_letters = {}
    /\ turn_of_players = 0
    /\ player = 0
    /\ game_running = TRUE
    /\ user_input = <<>>
    /\ questions = <<>>
    /\ current_question = Q1
    /\ current_player = 0
    /\ category = None
    /\ difficulty = None
    /\ answer = 0
    /\ announce = [kind |-> "none", names |-> <<>>]
    /\ start_player = 0
    /\ calls = 0
    /\ visited = <<>>

SpecFinal ==
    InitFinal /\ [][FinalScores]_vars

\* A game object with any number of players and any current player.
InitTurn ==
    /\ prog = "trivia"
    /\ source = "ok"
    /\ pc = "play"
    /\ exit_code = -1
    /\ reported = FALSE
    /\ prompted = TRUE
    /\ event = "started"
    /\ num_players \in 1..MaxTurnPlayers
    /\ player_names = [i \in 1..num_players |-> Names[1]]
    /\ scores = [i \in 1..num_players |-> 0]
    /\ words = <<>>
    /\ word_index = 0
    /\ word = <<>>
    /\ covered_word = <<>>
    /\ tried_letters = {}
    /\ turn_of_players = 0
    /\ player = 0
    /\ game_running = TRUE
    /\ user_input = <<>>
    /\ questions = <<Q1>>
    /\ current_question = NoQuestion
    /\ current_player \in 0..(num_players - 1)
    /\ category = None
    /\ difficulty = None
    /\ answer = -1
    /\ announce = [kind |-> "none", names |-> <<>>]
    /\ start_player = current_player
    /\ calls = 0
    /\ visited = <<>>

SpecTurn ==
    InitTurn /\ [][NextTurnCall]_vars

----------------------------------------------------------------------------
\* Properties.

\* The slots of a masked buffer: its characters other than the separators.
Slots(cw) ==
    SelectSeq(cw, LAMBDA ch : ch # " ")

Hangman ==
    prog \in {"hangman1", "hangman2"}

\* Number of positions of w that hold the character c.
Occurrences(w, c) ==
    Cardinality({i \in 1..Len(w) : w[i] = c})

\* The player (1-based) the guess prompt is addressed to, when pc = "turn".
Asked ==
    IF prog = "hangman1" THEN (turn_of_players % num_players) + 1 ELSE player + 1

\* The player (1-based) who made the last guess, when pc = "pick".
LastActed ==
    IF prog = "hangman1" THEN turn_of_players ELSE player + 1

\* A step that takes a guess (not the quit sentinel) from the active player.
GuessStep ==
    Hangman /\ pc = "turn" /\ event' \in {"hit", "miss", "repeat"}

\* C1: entering the quit sentinel "." ends the game loop (no further guess
\* prompt) and leaves the pool of words exactly as it was, the word in play
\* still in it.
C1_QuitKeepsPool ==
    [][(Hangman /\ pc = "turn" /\ event' = "quit") =>
          /\ pc' = "pick" /\ ~game_running'
          /\ words' = words
          /\ word_index \in DOMAIN words' /\ words'[word_index].word = word]_vars

\* C2: every score is an integer >= 0 in every reachable state of the three
\* games, and no step makes any player's score smaller.
C2_ScoresNeverDecrease ==
    /\ [](\A i \in DOMAIN scores : scores[i] \in Nat)
    /\ [][\A i \in DOMAIN scores :
             i \in DOMAIN scores' /\ scores'[i] >= scores[i]]_vars

C2_Witness ==
    /\ prog = "hangman2" /\ event = "miss"
    /\ \E i \in DOMAIN scores : scores[i] >= 2

\* C3: the masked buffer has one slot per letter of the word in play, each
\* slot the blank placeholder or the word's letter at that position; a guess
\* of c sets every slot where the word has c to c and changes no other slot.
C3_MaskedBuffer ==
    /\ []((Hangman /\ pc = "turn") =>
            /\ Len(Slots(covered_word)) = Len(word)
            /\ \A i \in 1..Len(word) : Slots(covered_word)[i] \in {"_", word[i]})
    /\ [][GuessStep =>
            /\ Len(Slots(covered_word')) = Len(word)
            /\ \A i \in 1..Len(word) :
                  Slots(covered_word')[i] =
                      IF word[i] = user_input'[1] THEN user_input'[1]
                      ELSE Slots(covered_word)[i]]_vars

C3_Witness ==
    /\ Hangman /\ event = "hit"
    /\ word = <<"b", "a", "b">>
    /\ user_input = <<"b">>
    /\ Slots(covered_word) = <<"b", "_", "b">>

\* A question matches a filter when its fields equal the requested ones
\* ignoring case; an absent filter matches everything.
Matches(q, cat, diff) ==
    /\ cat = None \/ str_lower(q.category) = str_lower(cat)
    /\ diff = None \/ str_lower(q.difficulty) = str_lower(diff)

\* C4: when select_question returns True the current question is in the
\* pool and matches the requested category and difficulty ignoring case; it
\* returns False exactly when no question of the pool matches, and then the
\* current question, the pool, the scores and the current player are
\* unchanged.
C4_SelectQuestion ==
    /\ [](event = "selected" =>
            /\ current_question \in Range(questions)
            /\ Matches(current_question, category, difficulty))
    /\ [](event = "nomatch" =>
            \A q \in Range(questions) : ~Matches(q, category, difficulty))
    /\ [][event' = "nomatch" =>
            UNCHANGED <<current_question, questions, scores, current_player>>]_vars

C4_Witness ==
    /\ event = "selected"
    /\ category = <<"M", "A">>
    /\ current_question.category = <<"m", "a">>
    /\ difficulty = <<"h">>
    /\ current_question.difficulty = <<"H">>

\* The players holding the maximum score, in player order.
RECURSIVE MaxHolders(_)
MaxHolders(n) ==
    IF n = 0 THEN <<>>
    ELSE IF \A j \in DOMAIN scores : scores[j] <= scores[n]
         THEN Append(MaxHolders(n - 1), player_names[n])
         ELSE MaxHolders(n - 1)

\* C5: the final report announces exactly the players whose score is the
\* maximum, in player order; a sole winner if and only if one player holds
\* the maximum, a tie otherwise.  Scores 3,5,5,2 of A,B,C,D: tie between B
\* and C; scores 4,2,1: A wins.
C5_Winners ==
    announce.kind # "none" =>
        /\ announce.names = MaxHolders(num_players)
        /\ announce.kind = "wins" <=>
              Cardinality({i \in DOMAIN scores :
                              \A j \in DOMAIN scores : scores[j] <= scores[i]}) = 1
        /\ announce.kind \in {"wins", "tie"}
        /\ (scores = <<3, 5, 5, 2>> /\ player_names = <<"A", "B", "C", "D">>) =>
              announce = [kind |-> "tie", names |-> <<"B", "C">>]
        /\ (scores = <<4, 2, 1>> /\ player_names = <<"A", "B", "C">>) =>
              announce = [kind |-> "wins", names |-> <<"A">>]

C5_Witness ==
    /\ scores = <<3, 5, 5, 2>>
    /\ player_names = <<"A", "B", "C", "D">>
    /\ announce = [kind |-> "tie", names |-> <<"B", "C">>]

\* C6: current_player stays within 0..N-1; N calls of next_turn from player
\* p visit each of the N players once and end at p; a call changes nothing
\* but current_player.
C6_RoundRobin ==
    /\ [](current_player \in 0..(num_players - 1))
    /\ [](calls = num_players =>
            /\ current_player = start_player
            /\ Len(visited) = num_players
            /\ Range(visited) = 0..(num_players - 1))
    /\ [](\A i, j \in DOMAIN visited : i # j => visited[i] # visited[j])
    /\ [][calls' # calls =>
            UNCHANGED <<scores, questions, current_question, num_players,
                        player_names, pc>>]_vars

C6_Witness ==
    /\ num_players = 3 /\ start_player = 0
    /\ calls = 3 /\ current_player = 0
    /\ visited = <<1, 2, 0>>

\* C7: an accepted guess adds to the acting player's score the number of
\* positions at which the word in play holds the guessed letter (0 when it
\* holds it nowhere) and changes no other score.
C7_PointPerOccurrence ==
    [][(GuessStep /\ event' \in {"hit", "miss"}) =>
          scores' = [scores EXCEPT ![Asked] = @ + Occurrences(word, user_input'[1])]]_vars

\* The data source could not be loaded: no file, or no JSON in it, or (word
\* files) no 'words' or 'hints' key.
LoadFailed ==
    source # "ok"

\* C8: when the data source cannot be loaded the program reports the error,
\* prompts for nothing and ends with exit code 1; only a run whose data
\* loaded ends with exit code 0.
C8_LoadFailureExitsOne ==
    /\ (pc \in {"done", "crashed"} /\ LoadFailed) =>
          reported /\ ~prompted /\ exit_code = 1
    /\ exit_code = 0 => ~LoadFailed

\* C9: a letter already guessed for the word in play is rejected: no points,
\* masked buffer and tried letters unchanged, the same player asked again;
\* after an accepted guess the next player in round-robin order is asked,
\* also when a new word starts.
C9_RepeatReprompts ==
    [][/\ (GuessStep /\ user_input' \in tried_letters) =>
             /\ scores' = scores
             /\ covered_word' = covered_word
             /\ tried_letters' = tried_letters
             /\ pc' = "turn" /\ Asked' = Asked
       /\ (GuessStep /\ user_input' \notin tried_letters /\ pc' = "turn") =>
             Asked' = (Asked % num_players) + 1
       /\ (Hangman /\ pc = "pick" /\ pc' = "turn" /\ word # <<>>) =>
             Asked' = (LastActed % num_players) + 1]_vars

\* C10: whenever the players keep choosing matching filters and keep trying
\* the options of the question asked, a started trivia game reaches the
\* final-score report.
C10_GameReachesFinalReport ==
    (prog = "trivia" /\ pc = "play") ~> (pc = "done" /\ announce.kind # "none")

====
